---- MODULE Spec2Model ----
(***************************************************************************)
(* Observer client of the drone fleet coordinator (forntend/src/App.jsx).  *)
(* The state is the React state of App plus the closure variable of the    *)
(* throttle utility; there is one action per socket handler and per UI     *)
(* handler.  The UI handlers are only reachable once the map is loaded     *)
(* (App.jsx:224), which the model takes as given.  The firmware of one     *)
(* drone (unnamed/part_000) and the map canvas (unnamed/part_001) are      *)
(* modelled beside it, each in one record variable.                        *)
(***************************************************************************)
EXTENDS Integers, Sequences, FiniteSets, TLC

VARIABLES
    connected,        \* App.jsx:32
    drones,           \* App.jsx:28
    survivors,        \* App.jsx:29
    heatSignatures,   \* App.jsx:30
    alerts,           \* App.jsx:31
    scannedCells,     \* App.jsx:41  rows of booleans, scannedCells[y+1][x+1]
    activeTab,        \* App.jsx:33
    selectedDroneId,  \* App.jsx:34
    last,             \* App.jsx:16  time of the last applied drone_update
    now,              \* Date.now()
    emitted,          \* manual_command messages sent through the socket
    received,         \* history: alerts received since the last connect
    dismissals,       \* history: alerts dismissed since the last connect
    socketRef,        \* App.jsx:37  socketRef.current
    appliedAt,        \* history: the times at which a drone_update was applied
    latest,           \* history: the last drone_update received since connect
    fw,               \* part_000: the firmware of one drone (pins, WiFi, loop)
    canvas            \* part_001: the map canvas (pan state, pointer)

vars == <<connected, drones, survivors, heatSignatures, alerts, scannedCells,
          activeTab, selectedDroneId, last, now, emitted, received,
          dismissals, socketRef, appliedAt, latest, fw, canvas>>

(* the state of the App component *)
appVars == <<connected, drones, survivors, heatSignatures, alerts,
             scannedCells, activeTab, selectedDroneId, last, now, emitted,
             received, dismissals, socketRef, appliedAt, latest>>

----------------------------------------------------------------------------
(* Program constants *)

GRID_SIZE == 30

THROTTLE_DELAY == 100

ALERT_KEEP == 19

ALERT_PANEL == 5

(* JavaScript undefined / null *)
Undef == "undefined"

Truthy(v) == v # Undef /\ v # ""

----------------------------------------------------------------------------
(* Bounds of the model *)

StartNow == 1000

MaxElapsed == 101

MaxScanAlerts == 1

MaxCmds == 1

MaxSurvAlerts == 3

MaxLogAlerts == 22

MaxDismiss == 1

MaxThrottleElapsed == 250

MaxClicks == 2

MaxGestures == 2

TimeSteps == {THROTTLE_DELAY + 1}

ThrottleSteps == {THROTTLE_DELAY \div 2, THROTTLE_DELAY, THROTTLE_DELAY + 1}

----------------------------------------------------------------------------
(* Fog of war grid *)

EmptyGrid == [r \in 1..GRID_SIZE |-> [c \in 1..GRID_SIZE |-> FALSE]]

InBounds(cell) ==
    /\ cell[1] >= 0 /\ cell[1] < GRID_SIZE
    /\ cell[2] >= 0 /\ cell[2] < GRID_SIZE

(* mutant: the cell is toggled instead of set *)
MarkCell_Toggle(grid, cell) ==
    IF InBounds(cell)
    THEN [grid EXCEPT ![cell[2] + 1][cell[1] + 1] = ~grid[cell[2] + 1][cell[1] + 1]]
    ELSE grid

MarkCell(grid, cell) ==
    IF InBounds(cell)
    THEN [grid EXCEPT ![cell[2] + 1][cell[1] + 1] = TRUE]
    ELSE grid

(* mutant: the loop stops at the first cell outside the grid *)
RECURSIVE MarkCells_StopAtInvalid(_, _)
MarkCells_StopAtInvalid(grid, cells) ==
    IF cells = <<>> \/ ~InBounds(Head(cells)) THEN grid
    ELSE MarkCells_StopAtInvalid(MarkCell(grid, Head(cells)), Tail(cells))

RECURSIVE MarkCells(_, _)
MarkCells(grid, cells) ==
    IF cells = <<>> THEN grid
    ELSE MarkCells(MarkCell(grid, Head(cells)), Tail(cells))

exploredCells(grid) ==
    Cardinality({rc \in (1..Len(grid)) \X (1..GRID_SIZE) :
                    rc[2] <= Len(grid[rc[1]]) /\ grid[rc[1]][rc[2]]})

totalCells == GRID_SIZE * GRID_SIZE

----------------------------------------------------------------------------
(* Array helpers *)

SliceLast(s, n) ==
    IF Len(s) <= n THEN s ELSE SubSeq(s, Len(s) - n + 1, Len(s))

RemoveAt(s, index) ==
    [k \in 1..(IF index < Len(s) THEN Len(s) - 1 ELSE Len(s)) |->
        IF k <= index THEN s[k] ELSE s[k + 1]]

Find(s, id) ==
    IF \E k \in 1..Len(s) : s[k].id = id
    THEN s[CHOOSE k \in 1..Len(s) :
              s[k].id = id /\ \A j \in 1..(k - 1) : s[j].id # id]
    ELSE Undef

----------------------------------------------------------------------------
(* State after construction *)

NoUpdate ==
    [has |-> FALSE,
     data |-> [hasDrones |-> FALSE, drones |-> <<>>,
              hasHeat |-> FALSE, heat_signatures |-> <<>>]]

(* the firmware after setup(): pins configured, nothing written, WiFi up;
   args are the arguments of the last setMotors call, event is the message
   socket.loop() handled in the current loop() iteration *)
noEvent == [shape |-> "none", entries |-> <<>>]

fwInit ==
    [motors |-> <<0, 0, 0, 0>>, args |-> <<0, 0, 0, 0>>, wifi |-> TRUE,
     pc |-> "socket.loop", event |-> noEvent]

(* the canvas after its first render. pointer is where the mouse is; phase
   is the position in the gesture; downAt, moved, clicked and gestures are
   history: where the button went down, whether the pointer moved more than
   5 px away from there, what the click handler did, gestures started *)
canvasInit ==
    [isDragging |-> FALSE, lastMouse |-> <<0, 0>>, viewOffset |-> <<0, 0>>,
     pointer |-> <<0, 0>>, phase |-> "idle", downAt |-> <<0, 0>>,
     moved |-> FALSE, clicked |-> "none", gestures |-> 0]

(* the App component after its first render *)
appInit ==
    /\ connected = FALSE
    /\ drones = <<>>
    /\ survivors = <<>>
    /\ heatSignatures = <<>>
    /\ alerts = <<>>
    /\ scannedCells = EmptyGrid
    /\ activeTab = "map"
    /\ selectedDroneId = Undef
    /\ last = 0
    /\ now = StartNow
    /\ emitted = <<>>
    /\ received = <<>>
    /\ dismissals = 0
    /\ socketRef = Undef
    /\ appliedAt = <<>>
    /\ latest = NoUpdate

Init ==
    /\ appInit
    /\ fw = fwInit
    /\ canvas = canvasInit

----------------------------------------------------------------------------
(* Socket handlers *)

(* the effect run once after the first render: App.jsx:56-60 *)
mount ==
    /\ socketRef = Undef
    /\ socketRef' = "socket"
    /\ UNCHANGED <<connected, drones, survivors, heatSignatures, alerts,
                   scannedCells, activeTab, selectedDroneId, last, now,
                   emitted, received, dismissals, appliedAt, latest, fw, canvas>>

OnConnect_KeepSurvivors ==
    /\ socketRef # Undef
    /\ connected' = TRUE
    /\ drones' = <<>>
    /\ survivors' = survivors
    /\ alerts' = <<>>
    /\ heatSignatures' = <<>>
    /\ scannedCells' = EmptyGrid
    /\ received' = <<>>
    /\ dismissals' = 0
    /\ latest' = NoUpdate
    /\ UNCHANGED <<activeTab, selectedDroneId, last, now, emitted,
                   socketRef, appliedAt, fw, canvas>>

OnConnect ==
    /\ socketRef # Undef
    /\ connected' = TRUE
    /\ drones' = <<>>
    /\ survivors' = <<>>
    /\ alerts' = <<>>
    /\ heatSignatures' = <<>>
    /\ scannedCells' = EmptyGrid
    /\ received' = <<>>
    /\ dismissals' = 0
    /\ latest' = NoUpdate
    /\ UNCHANGED <<activeTab, selectedDroneId, last, now, emitted,
                   socketRef, appliedAt, fw, canvas>>

OnDisconnect_ClearDrones ==
    /\ socketRef # Undef
    /\ connected' = FALSE
    /\ drones' = <<>>
    /\ UNCHANGED <<survivors, heatSignatures, alerts, scannedCells,
                   activeTab, selectedDroneId, last, now, emitted, received,
                   dismissals,
                   socketRef, appliedAt, latest, fw, canvas>>

OnDisconnect ==
    /\ socketRef # Undef
    /\ connected' = FALSE
    /\ UNCHANGED <<drones, survivors, heatSignatures, alerts, scannedCells,
                   activeTab, selectedDroneId, last, now, emitted, received,
                   dismissals,
                   socketRef, appliedAt, latest, fw, canvas>>

(* mutant: the received list is merged into the stored one *)
throttledDroneUpdate_Merge(data) ==
    /\ drones' = IF data.hasDrones THEN data.drones \o drones ELSE drones
    /\ heatSignatures' = IF data.hasHeat THEN data.heat_signatures
                         ELSE heatSignatures

throttledDroneUpdate(data) ==
    /\ drones' = IF data.hasDrones THEN data.drones ELSE drones
    /\ heatSignatures' = IF data.hasHeat THEN data.heat_signatures
                         ELSE heatSignatures

(* mutant: an update exactly THROTTLE_DELAY after the last one passes *)
throttleOpen_AtLeast == now - last >= THROTTLE_DELAY

throttleOpen == now - last > THROTTLE_DELAY

OnDroneUpdate(data) ==
    /\ socketRef # Undef
    /\ IF throttleOpen
       THEN /\ last' = now
            /\ throttledDroneUpdate(data)
            /\ appliedAt' = Append(appliedAt, now)
       ELSE UNCHANGED <<last, drones, heatSignatures, appliedAt>>
    /\ latest' = [has |-> TRUE, data |-> data]
    /\ UNCHANGED <<connected, survivors, alerts, scannedCells, activeTab,
                   selectedDroneId, now, emitted, received, dismissals,
                   socketRef, fw, canvas>>

(* mutant: the batch replaces the grid instead of being added to it *)
applyScan_Replace(prev, data) ==
    IF data.hasCells /\ Len(data.cells) > 0
    THEN MarkCells(EmptyGrid, data.cells)
    ELSE prev

applyScan(prev, data) ==
    IF data.hasCells /\ Len(data.cells) > 0
    THEN MarkCells(prev, data.cells)
    ELSE prev

OnScanUpdate(data) ==
    /\ socketRef # Undef
    /\ scannedCells' = applyScan(scannedCells, data)
    /\ UNCHANGED <<connected, drones, survivors, heatSignatures, alerts,
                   activeTab, selectedDroneId, last, now, emitted, received,
                   dismissals,
                   socketRef, appliedAt, latest, fw, canvas>>

(* mutant: the payload is added without looking for its id *)
addSurvivor_NoCheck(prev, data) ==
    IF data.type = "SURVIVOR_DETECTED" /\ data.hasPayload
    THEN Append(prev, data.payload)
    ELSE prev

addSurvivor(prev, data) ==
    IF data.type = "SURVIVOR_DETECTED" /\ data.hasPayload
    THEN IF \E k \in 1..Len(prev) : prev[k].id = data.payload.id
         THEN prev
         ELSE Append(prev, data.payload)
    ELSE prev

(* mutant: the rescued flag is flipped instead of set *)
markRescued_Toggle(prev, data) ==
    IF data.type = "RESCUE_NEEDED" /\ data.hasPayload
       /\ Truthy(data.payload.survivor_id)
    THEN [k \in 1..Len(prev) |->
            IF prev[k].id = data.payload.survivor_id
            THEN [prev[k] EXCEPT !.rescued = ~prev[k].rescued,
                                 !.rescue_drone = data.payload.drone_id]
            ELSE prev[k]]
    ELSE prev

(* mutant: the id comparison is missing, every survivor is marked *)
markRescued_All(prev, data) ==
    IF data.type = "RESCUE_NEEDED" /\ data.hasPayload
       /\ Truthy(data.payload.survivor_id)
    THEN [k \in 1..Len(prev) |->
            [prev[k] EXCEPT !.rescued = TRUE,
                            !.rescue_drone = data.payload.drone_id]]
    ELSE prev

markRescued(prev, data) ==
    IF data.type = "RESCUE_NEEDED" /\ data.hasPayload
       /\ Truthy(data.payload.survivor_id)
    THEN [k \in 1..Len(prev) |->
            IF prev[k].id = data.payload.survivor_id
            THEN [prev[k] EXCEPT !.rescued = TRUE,
                                 !.rescue_drone = data.payload.drone_id]
            ELSE prev[k]]
    ELSE prev

(* mutant: the log is never cut *)
pushAlert_KeepAll(prev, data) == Append(prev, data)

(* mutant: slice(0, 19) keeps the oldest entries instead of the newest *)
pushAlert_KeepOldest(prev, data) ==
    Append(IF Len(prev) <= ALERT_KEEP THEN prev ELSE SubSeq(prev, 1, ALERT_KEEP),
           data)

pushAlert(prev, data) == Append(SliceLast(prev, ALERT_KEEP), data)

OnAlert(data) ==
    /\ socketRef # Undef
    /\ alerts' = pushAlert(alerts, data)
    /\ survivors' = markRescued(addSurvivor(survivors, data), data)
    /\ received' = Append(received, data)
    /\ UNCHANGED <<connected, drones, heatSignatures, scannedCells, activeTab,
                   selectedDroneId, last, now, emitted, dismissals,
                   socketRef, appliedAt, latest, fw, canvas>>

AdvanceTime(dt) ==
    /\ now' = now + dt
    /\ UNCHANGED <<connected, drones, survivors, heatSignatures, alerts,
                   scannedCells, activeTab, selectedDroneId, last, emitted,
                   received, dismissals,
                   socketRef, appliedAt, latest, fw, canvas>>

----------------------------------------------------------------------------
(* UI handlers *)

setActiveTab(tab) ==
    /\ activeTab' = tab
    /\ UNCHANGED <<connected, drones, survivors, heatSignatures, alerts,
                   scannedCells, selectedDroneId, last, now, emitted,
                   received, dismissals,
                   socketRef, appliedAt, latest, fw, canvas>>

(* CommandCenter.jsx:4 *)
selectedDrone == Find(drones, selectedDroneId)

hasSelectedDrone == \E k \in 1..Len(drones) : drones[k].id = selectedDroneId

(* a click on a drone card of the command tab *)
handleSelectDrone(id) ==
    /\ activeTab = "command"
    /\ \E k \in 1..Len(drones) : drones[k].id = id
    /\ selectedDroneId' = id
    /\ UNCHANGED <<connected, drones, survivors, heatSignatures, alerts,
                   scannedCells, activeTab, last, now, emitted, received,
                   dismissals,
                   socketRef, appliedAt, latest, fw, canvas>>

manualCommand(droneId, command, mode, waypoints) ==
    [drone_id |-> droneId, command |-> command, mode |-> mode,
     waypoints |-> waypoints]

(* mutant: only an unset control_mode counts as auto *)
isAutoMode_UnsetOnly(drone) == ~Truthy(drone.control_mode)

isAutoMode(drone) ==
    ~Truthy(drone.control_mode) \/ drone.control_mode = "auto"

(* the mode button of the control panel *)
handleSetMode ==
    /\ activeTab = "command"
    /\ hasSelectedDrone
    /\ emitted' =
          IF socketRef # Undef
          THEN Append(emitted,
                  manualCommand(selectedDrone.id, "set_mode",
                      IF isAutoMode(selectedDrone) THEN "manual" ELSE "auto",
                      <<>>))
          ELSE emitted
    /\ UNCHANGED <<connected, drones, survivors, heatSignatures, alerts,
                   scannedCells, activeTab, selectedDroneId, last, now,
                   received, dismissals,
                   socketRef, appliedAt, latest, fw, canvas>>

(* mutant: the button is offered in every mode *)
handleClearPath_NoModeCheck ==
    /\ activeTab = "command"
    /\ hasSelectedDrone
    /\ emitted' =
          IF socketRef # Undef
          THEN Append(emitted,
                  manualCommand(selectedDrone.id, "set_waypoints", Undef, <<>>))
          ELSE emitted
    /\ UNCHANGED <<connected, drones, survivors, heatSignatures, alerts,
                   scannedCells, activeTab, selectedDroneId, last, now,
                   received, dismissals,
                   socketRef, appliedAt, latest, fw, canvas>>

(* the Stop / Clear Path button of the control panel *)
handleClearPath ==
    /\ activeTab = "command"
    /\ hasSelectedDrone
    /\ selectedDrone.control_mode = "manual"
    /\ emitted' =
          IF socketRef # Undef
          THEN Append(emitted,
                  manualCommand(selectedDrone.id, "set_waypoints", Undef, <<>>))
          ELSE emitted
    /\ UNCHANGED <<connected, drones, survivors, heatSignatures, alerts,
                   scannedCells, activeTab, selectedDroneId, last, now,
                   received, dismissals,
                   socketRef, appliedAt, latest, fw, canvas>>

currentWaypoints(drone) ==
    IF drone.hasWaypoints THEN drone.waypoints ELSE <<>>

(* mutant: only the clicked point is sent *)
handleMapClick_Replace(x, y) ==
    /\ activeTab = "command"
    /\ emitted' =
          IF /\ Truthy(selectedDroneId)
             /\ hasSelectedDrone
             /\ \/ selectedDrone.control_mode = "manual"
                \/ ~Truthy(selectedDrone.control_mode)
             /\ socketRef # Undef
          THEN Append(emitted,
                  manualCommand(selectedDroneId, "set_waypoints", Undef,
                      << <<x, y>> >>))
          ELSE emitted
    /\ UNCHANGED <<connected, drones, survivors, heatSignatures, alerts,
                   scannedCells, activeTab, selectedDroneId, last, now,
                   received, dismissals,
                   socketRef, appliedAt, latest, fw, canvas>>

(* mutant: the selected id is used without looking the drone up *)
mapClickCommands_NoLookup(x, y) ==
    IF Truthy(selectedDroneId) /\ socketRef # Undef
    THEN << manualCommand(selectedDroneId, "set_waypoints", Undef,
               << <<x, y>> >>) >>
    ELSE <<>>

(* the commands a click at (x, y) on the map of the command tab sends *)
mapClickCommands(x, y) ==
    IF /\ Truthy(selectedDroneId)
       /\ hasSelectedDrone
       /\ \/ selectedDrone.control_mode = "manual"
          \/ ~Truthy(selectedDrone.control_mode)
       /\ socketRef # Undef
    THEN << manualCommand(selectedDroneId, "set_waypoints", Undef,
               Append(currentWaypoints(selectedDrone), <<x, y>>)) >>
    ELSE <<>>

(* a click on the map of the command tab *)
handleMapClick(x, y) ==
    /\ activeTab = "command"
    /\ emitted' = emitted \o mapClickCommands(x, y)
    /\ UNCHANGED <<connected, drones, survivors, heatSignatures, alerts,
                   scannedCells, activeTab, selectedDroneId, last, now,
                   received, dismissals,
                   socketRef, appliedAt, latest, fw, canvas>>

(* a click on the index-th alert shown in the alerts panel of the map tab *)
dismissAlert(index) ==
    /\ activeTab = "map"
    /\ index < Len(SliceLast(alerts, ALERT_PANEL))
    /\ alerts' = RemoveAt(alerts, index)
    /\ dismissals' = dismissals + 1
    /\ UNCHANGED <<connected, drones, survivors, heatSignatures, scannedCells,
                   activeTab, selectedDroneId, last, now, emitted, received,
                   socketRef, appliedAt, latest, fw, canvas>>

----------------------------------------------------------------------------
(* Messages of the environment *)

Cells(cells) == [hasCells |-> TRUE, cells |-> cells]

NoCells == [hasCells |-> FALSE, cells |-> <<>>]

MainScanInputs ==
    { Cells(<< <<0, 0>> >>),
      Cells(<< <<GRID_SIZE - 1, GRID_SIZE - 1>>, <<GRID_SIZE, 0>> >>) }

ScanInputs ==
    MainScanInputs \cup
    { NoCells,
      Cells(<<>>),
      Cells(<< <<0, 1>>, <<1, 0>>, <<0, 1>> >>),
      Cells(<< <<-1, 5>>, <<1, 0>>, <<0, GRID_SIZE>> >>),
      Cells(<< <<0, -1>>, <<GRID_SIZE, GRID_SIZE>> >>),
      Cells(<< <<2, 3>>, <<GRID_SIZE - 1, 0>> >>),
      Cells(<< <<0, GRID_SIZE - 1>>, <<-1, -1>>, <<2, 3>> >>),
      Cells(<< <<5, 5>> >>) }

Drone(id, mode, hasWaypoints, waypoints, x) ==
    [id |-> id, control_mode |-> mode, hasWaypoints |-> hasWaypoints,
     waypoints |-> waypoints, x |-> x, status |-> "scanning"]

DroneData(hasDrones, ds, hasHeat, hs) ==
    [hasDrones |-> hasDrones, drones |-> ds,
     hasHeat |-> hasHeat, heat_signatures |-> hs]

MainDroneInputs ==
    { DroneData(TRUE, << Drone("Drone-1", "manual", TRUE, << <<1, 1>> >>, 200) >>,
                TRUE, << 7 >>),
      DroneData(FALSE, <<>>, FALSE, <<>>) }

DroneInputs ==
    MainDroneInputs \cup
    { DroneData(TRUE, << Drone("Drone-1", Undef, FALSE, <<>>, 100),
                         Drone("Drone-2", "auto", TRUE, <<>>, 300) >>,
                FALSE, <<>>) }

(* fleet views for the command panel: a manual drone with a planned path and
   an explicitly automatic one; then the two with their modes changed *)
CommandDroneInputs ==
    { DroneData(TRUE, << Drone("Drone-1", "manual", TRUE,
                               << <<1, 1>>, <<2, 2>> >>, 200),
                         Drone("Drone-2", "auto", FALSE, <<>>, 300) >>,
                FALSE, <<>>),
      DroneData(TRUE, << Drone("Drone-1", Undef, FALSE, <<>>, 100),
                         Drone("Drone-2", "manual", TRUE, <<>>, 300) >>,
                FALSE, <<>>),
      DroneData(TRUE, << Drone("Drone-1", "manual", TRUE, << <<1, 1>> >>, 200) >>,
                FALSE, <<>>),
      DroneData(FALSE, <<>>, FALSE, <<>>) }

Payload(id, survivor_id, drone_id, pos) ==
    [id |-> id, survivor_id |-> survivor_id, drone_id |-> drone_id,
     pos |-> pos, rescued |-> FALSE, rescue_drone |-> Undef]

Alert(type, hasPayload, payload, message) ==
    [type |-> type, hasPayload |-> hasPayload, payload |-> payload,
     message |-> message]

NoPayload == Payload(Undef, Undef, Undef, 0)

Detected(id, pos) ==
    Alert("SURVIVOR_DETECTED", TRUE, Payload(id, Undef, "Drone-1", pos), 0)

Rescue(survivor_id, drone_id) ==
    Alert("RESCUE_NEEDED", TRUE, Payload(Undef, survivor_id, drone_id, 0), 0)

System(message) == Alert("SYSTEM", FALSE, NoPayload, message)

MainAlerts == { Detected("S1", 1) }

SurvAlerts ==
    { Detected("S1", 1), Detected("S1", 2), Detected("S2", 1),
      Rescue("S1", "Drone-1"), Rescue("S1", "Drone-2"), Rescue("S3", "Drone-1"),
      Rescue(Undef, "Drone-1"),
      Alert("SURVIVOR_DETECTED", FALSE, NoPayload, 0) }

(* the server numbers its alerts: the n-th alert of a session *)
LogAlerts(n) == { System(n) }

DismissIndexes == 0..(ALERT_PANEL - 1)

Tabs == {"map", "dashboard", "command"}

DroneIds == {"Drone-1", "Drone-2"}

ClickPoints == { <<500, 500>> }

----------------------------------------------------------------------------
(* The observer under every event, with small inputs *)

Next ==
    \/ mount
    \/ OnConnect
    \/ OnDisconnect
    \/ \E data \in MainScanInputs : OnScanUpdate(data)
    \/ \E data \in MainDroneInputs : OnDroneUpdate(data)
    \/ \E data \in MainAlerts :
          Len(received) < MaxScanAlerts /\ OnAlert(data)
    \/ \E dt \in TimeSteps :
          now + dt <= StartNow + MaxElapsed /\ AdvanceTime(dt)
    \/ \E tab \in Tabs : setActiveTab(tab)
    \/ \E id \in DroneIds : handleSelectDrone(id)
    \/ Len(emitted) < MaxCmds /\ handleSetMode
    \/ Len(emitted) < MaxCmds /\ handleClearPath
    \/ \E p \in ClickPoints :
          Len(emitted) < MaxCmds /\ handleMapClick(p[1], p[2])
    \/ \E index \in 0..(ALERT_PANEL - 1) : dismissAlert(index)

Spec == Init /\ [][Next]_vars

----------------------------------------------------------------------------
(* The fog of war under scan batches with cells inside and outside the grid *)

NextScan ==
    \/ mount
    \/ OnConnect
    \/ OnDisconnect
    \/ \E data \in ScanInputs : OnScanUpdate(data)

SpecScan == Init /\ [][NextScan]_vars

----------------------------------------------------------------------------
(* The survivor registry under detection and rescue alerts *)

NextSurvivors ==
    \/ mount
    \/ OnConnect
    \/ OnDisconnect
    \/ \E data \in SurvAlerts :
          Len(received) < MaxSurvAlerts /\ OnAlert(data)
    \/ OnScanUpdate(Cells(<< <<0, 0>> >>))
    \/ OnDroneUpdate(DroneData(TRUE, << Drone("Drone-1", Undef, FALSE, <<>>, 100) >>,
                               FALSE, <<>>))

SpecSurvivors == Init /\ [][NextSurvivors]_vars

----------------------------------------------------------------------------
(* The alert log under more alerts than it keeps *)

NextAlertLog ==
    \/ mount
    \/ OnConnect
    \/ OnDisconnect
    \/ \E data \in LogAlerts(Len(received) + 1) :
          Len(received) < MaxLogAlerts /\ OnAlert(data)
    \/ \E index \in DismissIndexes :
          dismissals < MaxDismiss /\ dismissAlert(index)

SpecAlertLog == Init /\ [][NextAlertLog]_vars

----------------------------------------------------------------------------
(* The firmware of one drone (part_000) *)

DRONE_ID == "Drone-1"

PWM_MAX == 255

(* int is 32 bits wide on the ESP32 *)
IntMax == 2147483647

IntMin == (-IntMax) - 1

(* signed overflow is undefined: the build wraps, or leaves any int *)
UBOutcomes ==
    {[wrap |-> TRUE, value |-> 0]} \cup
    {[wrap |-> FALSE, value |-> v] : v \in {IntMin, -1, PWM_MAX + 1, IntMax}}

addInt(a, b, ub) ==
    IF b > 0 /\ a > IntMax - b
    THEN IF ub.wrap THEN (a - IntMax - 1) + (b - IntMax - 1) ELSE ub.value
    ELSE IF b < 0 /\ a < IntMin - b
    THEN IF ub.wrap THEN (a + IntMax + 1) + (b + IntMax + 1) ELSE ub.value
    ELSE a + b

subInt(a, b, ub) ==
    IF b < 0 /\ a > IntMax + b
    THEN IF ub.wrap THEN (a - IntMax - 1) - (b + IntMax + 1) ELSE ub.value
    ELSE IF b > 0 /\ a < IntMin + b
    THEN IF ub.wrap THEN (a + IntMax + 1) - (b - IntMax - 1) ELSE ub.value
    ELSE a - b

(* mutant: only the upper limit is applied *)
constrain_UpperOnly(amt, low, high) == IF amt > high THEN high ELSE amt

constrain(amt, low, high) ==
    IF amt < low THEN low ELSE IF amt > high THEN high ELSE amt

(* the four values setMotors writes to MOTOR_FL, MOTOR_FR, MOTOR_BL, MOTOR_BR *)
setMotors(throttle, pitch, roll, yaw, ub) ==
    LET m1 == addInt(addInt(addInt(throttle, pitch, ub), roll, ub), yaw, ub)
        m2 == subInt(subInt(addInt(throttle, pitch, ub), roll, ub), yaw, ub)
        m3 == subInt(addInt(subInt(throttle, pitch, ub), roll, ub), yaw, ub)
        m4 == addInt(subInt(subInt(throttle, pitch, ub), roll, ub), yaw, ub)
    IN  << constrain(m1, 0, PWM_MAX), constrain(m2, 0, PWM_MAX),
           constrain(m3, 0, PWM_MAX), constrain(m4, 0, PWM_MAX) >>

(* one call of setMotors with the arguments held in fw.args *)
callSetMotors ==
    /\ fw.pc = "setMotors"
    /\ \E ub \in UBOutcomes :
          fw' = [fw EXCEPT
                    !.motors = setMotors(fw.args[1], fw.args[2], fw.args[3],
                                         fw.args[4], ub),
                    !.pc = "done"]
    /\ UNCHANGED <<appVars, canvas>>

(* no overflow can occur in a call made by the firmware itself *)
noOverflow == [wrap |-> TRUE, value |-> 0]

(* a call of setMotors made by the firmware *)
writeMotors(f, throttle) ==
    [f EXCEPT !.motors = setMotors(throttle, 0, 0, 0, noOverflow),
              !.args = <<throttle, 0, 0, 0>>]

(* the body of the for loop of onDroneUpdate, for one element *)
onEntry(f, drone) ==
    IF drone.id = DRONE_ID
    THEN IF drone.status = "scanning" \/ drone.status = "responding"
         THEN writeMotors(f, 180)
         ELSE IF drone.status = "idle"
         THEN writeMotors(f, 50)
         ELSE IF drone.status = "returning"
         THEN writeMotors(f, 200)
         ELSE f
    ELSE f

RECURSIVE forEachEntry(_, _)
forEachEntry(f, entries) ==
    IF entries = <<>> THEN f
    ELSE forEachEntry(onEntry(f, Head(entries)), Tail(entries))

(* doc.as<JsonArray>(): the elements of a root array, none for any other root *)
asJsonArray_AnyRoot(msg) == msg.entries

asJsonArray(msg) == IF msg.shape = "array" THEN msg.entries ELSE <<>>

onDroneUpdate(f, msg) ==
    IF msg.shape = "invalid" THEN f
    ELSE forEachEntry(f, asJsonArray(msg))

(* socket.loop() of one loop() iteration: it handles one message or none *)
loopSocket(msg) ==
    /\ fw.pc = "socket.loop"
    /\ fw' = [(IF msg.shape = "none" THEN fw ELSE onDroneUpdate(fw, msg))
                 EXCEPT !.pc = "failsafe", !.event = msg]
    /\ UNCHANGED <<appVars, canvas>>

(* mutant: the failsafe test is left out *)
loopFailsafe_NoLand ==
    /\ fw.pc = "failsafe"
    /\ fw' = [fw EXCEPT !.pc = "socket.loop"]
    /\ UNCHANGED <<appVars, canvas>>

(* the failsafe at the end of loop() *)
loopFailsafe ==
    /\ fw.pc = "failsafe"
    /\ fw' = [(IF ~fw.wifi THEN writeMotors(fw, 0) ELSE fw)
                 EXCEPT !.pc = "socket.loop"]
    /\ UNCHANGED <<appVars, canvas>>

(* the WiFi link drops or comes back *)
wifiChange ==
    /\ fw.pc \in {"socket.loop", "failsafe"}
    /\ fw' = [fw EXCEPT !.wifi = ~fw.wifi]
    /\ UNCHANGED <<appVars, canvas>>

----------------------------------------------------------------------------
(* The map canvas (part_001): panning and clicking *)

abs(n) == IF n < 0 THEN 0 - n ELSE n

(* more than 5 px apart in x or in y *)
farApart(a, b) == abs(a[1] - b[1]) > 5 \/ abs(a[2] - b[2]) > 5

handleMouseDown(e) ==
    /\ canvas.phase = "idle"
    /\ canvas' = [canvas EXCEPT !.isDragging = TRUE, !.lastMouse = e,
                                !.pointer = e, !.phase = "down",
                                !.downAt = e, !.moved = FALSE,
                                !.clicked = "none",
                                !.gestures = canvas.gestures + 1]
    /\ UNCHANGED <<appVars, fw>>

handleMouseMove(e) ==
    /\ e # canvas.pointer
    /\ canvas' =
          IF ~canvas.isDragging
          THEN [canvas EXCEPT !.pointer = e]
          ELSE [canvas EXCEPT
                   !.viewOffset = << canvas.viewOffset[1] + (e[1] - canvas.lastMouse[1]),
                                     canvas.viewOffset[2] + (e[2] - canvas.lastMouse[2]) >>,
                   !.lastMouse = e,
                   !.pointer = e,
                   !.moved = canvas.moved \/ farApart(e, canvas.downAt)]
    /\ UNCHANGED <<appVars, fw>>

(* the button is released over the canvas *)
handleMouseUp ==
    /\ canvas.phase = "down"
    /\ canvas' = [canvas EXCEPT !.isDragging = FALSE, !.phase = "up"]
    /\ UNCHANGED <<appVars, fw>>

(* the pointer leaves the canvas with the button down: onMouseLeave *)
handleMouseLeave ==
    /\ canvas.phase = "down"
    /\ canvas' = [canvas EXCEPT !.isDragging = FALSE, !.phase = "idle"]
    /\ UNCHANGED <<appVars, fw>>

(* the tests of handleCanvasClick that make it return early *)
isDragClick(e) == canvas.isDragging \/ farApart(e, canvas.lastMouse)

(* the click event the browser sends after mouseup, at the pointer; with
   onMapClick given, as on the command tab *)
handleCanvasClick ==
    /\ canvas.phase = "up"
    /\ canvas' = [canvas EXCEPT
                     !.phase = "idle",
                     !.clicked = IF isDragClick(canvas.pointer)
                                 THEN "ignored" ELSE "onMapClick"]
    /\ UNCHANGED <<appVars, fw>>

----------------------------------------------------------------------------
(* The transport: the server's events reach the handlers of a connected
   socket only, and a socket connects and disconnects in turn *)

ServerConnect == ~connected /\ OnConnect

ServerDisconnect == connected /\ OnDisconnect

----------------------------------------------------------------------------
(* The throttled fleet view under bursts of drone_update events *)

NextThrottle ==
    \/ mount
    \/ ServerConnect
    \/ ServerDisconnect
    \/ \E data \in DroneInputs : connected /\ OnDroneUpdate(data)
    \/ \E dt \in ThrottleSteps :
          now + dt <= StartNow + MaxThrottleElapsed /\ AdvanceTime(dt)

SpecThrottle == Init /\ [][NextThrottle]_vars

----------------------------------------------------------------------------
(* One observer over several sessions: the handlers of the main
   specification, the server's events delivered while connected only *)

NextSession ==
    \/ mount
    \/ ServerConnect
    \/ ServerDisconnect
    \/ \E data \in MainScanInputs : connected /\ OnScanUpdate(data)
    \/ \E data \in MainDroneInputs : connected /\ OnDroneUpdate(data)
    \/ \E data \in MainAlerts :
          connected /\ Len(received) < MaxScanAlerts /\ OnAlert(data)
    \/ \E dt \in TimeSteps :
          now + dt <= StartNow + MaxElapsed /\ AdvanceTime(dt)
    \/ \E tab \in Tabs : setActiveTab(tab)
    \/ \E id \in DroneIds : handleSelectDrone(id)
    \/ Len(emitted) < MaxCmds /\ handleSetMode
    \/ Len(emitted) < MaxCmds /\ handleClearPath
    \/ \E p \in ClickPoints :
          Len(emitted) < MaxCmds /\ handleMapClick(p[1], p[2])
    \/ \E index \in DismissIndexes : dismissAlert(index)

SpecSession == Init /\ [][NextSession]_vars

----------------------------------------------------------------------------
(* The command panel over a changing fleet view *)

NextCommand ==
    \/ mount
    \/ ServerConnect
    \/ ServerDisconnect
    \/ \E data \in CommandDroneInputs : connected /\ OnDroneUpdate(data)
    \/ \E dt \in TimeSteps :
          now + dt <= StartNow + MaxElapsed /\ AdvanceTime(dt)
    \/ \E tab \in Tabs : setActiveTab(tab)
    \/ \E id \in DroneIds : handleSelectDrone(id)
    \/ Len(emitted) < MaxCmds /\ handleSetMode
    \/ Len(emitted) < MaxCmds /\ handleClearPath
    \/ \E p \in ClickPoints :
          Len(emitted) < MaxCmds /\ handleMapClick(p[1], p[2])

SpecCommand == Init /\ [][NextCommand]_vars

----------------------------------------------------------------------------
(* setMotors over its integer arguments *)

MixValues == {IntMin, -200, -1, 0, 180, PWM_MAX + 1, IntMax}

InitMotors ==
    /\ appInit
    /\ canvas = canvasInit
    /\ \E throttle \in MixValues, pitch \in MixValues,
          roll \in MixValues, yaw \in MixValues :
          fw = [fwInit EXCEPT !.args = <<throttle, pitch, roll, yaw>>,
                              !.pc = "setMotors"]

NextMotors == callSetMotors

SpecMotors == InitMotors /\ [][NextMotors]_vars

----------------------------------------------------------------------------
(* The firmware loop under drone_update messages and WiFi loss *)

wireDrone(id, status) ==
    [Drone(id, Undef, FALSE, <<>>, 100) EXCEPT !.status = status]

wireArray(entries) == [shape |-> "array", entries |-> entries]

(* the message shape the client reads: an object with a drones field *)
wireObject(entries) == [shape |-> "object", entries |-> entries]

WireMessages ==
    { [shape |-> "invalid", entries |-> <<>>],
      wireArray(<<>>),
      wireArray(<< wireDrone("Drone-2", "scanning") >>),
      wireArray(<< wireDrone("Drone-2", "returning"),
                   wireDrone("Drone-1", "scanning") >>),
      wireArray(<< wireDrone("Drone-1", "responding"),
                   wireDrone("Drone-2", "idle") >>),
      wireArray(<< wireDrone("Drone-1", "idle") >>),
      wireArray(<< wireDrone("Drone-1", "returning"),
                   wireDrone("Drone-1", "idle") >>),
      wireArray(<< wireDrone("Drone-1", "returning") >>),
      wireArray(<< wireDrone("Drone-1", "charging") >>),
      wireObject(<< wireDrone("Drone-1", "scanning") >>) }

(* the data argument the client's drone_update handler gets for a message *)
clientData(msg) ==
    DroneData(msg.shape = "object",
              IF msg.shape = "object" THEN msg.entries ELSE <<>>,
              FALSE, <<>>)

NextFirmware ==
    \/ \E msg \in WireMessages \cup {noEvent} : loopSocket(msg)
    \/ loopFailsafe
    \/ wifiChange

SpecFirmware == Init /\ [][NextFirmware]_vars

----------------------------------------------------------------------------
(* Rapid map clicks: the fleet view is received first, and no drone_update
   arrives once the operator has started to click *)

RapidClickPoints == { <<500, 500>>, <<700, 700>> }

NextClicks ==
    \/ mount
    \/ ServerConnect
    \/ \E data \in CommandDroneInputs :
          connected /\ emitted = <<>> /\ OnDroneUpdate(data)
    \/ \E tab \in Tabs : setActiveTab(tab)
    \/ \E id \in DroneIds : handleSelectDrone(id)
    \/ \E p \in RapidClickPoints :
          Len(emitted) < MaxClicks /\ handleMapClick(p[1], p[2])

SpecClicks == Init /\ [][NextClicks]_vars

----------------------------------------------------------------------------
(* Mouse gestures on the canvas of the command tab *)

PointerPoints == { <<100, 100>>, <<103, 100>>, <<120, 100>>, <<100, 110>> }

NextCanvas ==
    \/ canvas.gestures < MaxGestures /\ handleMouseDown(canvas.pointer)
    \/ \E e \in PointerPoints : handleMouseMove(e)
    \/ handleMouseUp
    \/ handleMouseLeave
    \/ handleCanvasClick

SpecCanvas == Init /\ [][NextCanvas]_vars

----------------------------------------------------------------------------
(* Claims *)

GridCells == (0..(GRID_SIZE - 1)) \X (0..(GRID_SIZE - 1))

isScanned(grid, cell) == grid[cell[2] + 1][cell[1] + 1]

HasShape(grid) ==
    /\ DOMAIN grid = 1..GRID_SIZE
    /\ \A r \in 1..GRID_SIZE : DOMAIN grid[r] = 1..GRID_SIZE

(* the cells of a batch, as a set *)
BatchCells(data) ==
    IF data.hasCells THEN {data.cells[k] : k \in 1..Len(data.cells)} ELSE {}

(* C1: between two connect events a scanned cell stays scanned and the scan
   coverage (explored cells out of 900) never decreases, whatever event
   (scan_update, drone_update, alert, disconnect, command) is handled. *)
C1_ScannedMonotone ==
    [][ \/ OnConnect
        \/ scannedCells' = scannedCells
        \/ /\ \A cell \in GridCells :
                 isScanned(scannedCells, cell) => isScanned(scannedCells', cell)
           /\ exploredCells(scannedCells') >= exploredCells(scannedCells)
           /\ totalCells = 900 ]_vars

C1_Witness ==
    /\ ~connected
    /\ exploredCells(scannedCells) = 2
    /\ isScanned(scannedCells, <<0, 0>>)
    /\ isScanned(scannedCells, <<GRID_SIZE - 1, GRID_SIZE - 1>>)
    /\ Len(alerts) > 0
    /\ Len(drones) > 0
    /\ Len(emitted) > 0

(* C2: a scan_update whose batch holds cells outside the grid marks the
   in-bounds cells of the batch, leaves every other cell as it was, and
   keeps the grid 30 x 30. *)
C2_OutOfBoundsIgnored ==
    [][ \A data \in ScanInputs :
          OnScanUpdate(data) =>
             /\ HasShape(scannedCells')
             /\ \A cell \in GridCells :
                   isScanned(scannedCells', cell) =
                      (isScanned(scannedCells, cell) \/ cell \in BatchCells(data)) ]_vars

C2_Witness ==
    /\ isScanned(scannedCells, <<1, 0>>)
    /\ ~isScanned(scannedCells, <<0, 1>>)
    /\ isScanned(scannedCells, <<2, 3>>)
    /\ ~isScanned(scannedCells, <<GRID_SIZE - 1, 0>>)
    /\ HasShape(scannedCells)

GridUnion(grid, cells) ==
    [r \in 1..GRID_SIZE |->
        [c \in 1..GRID_SIZE |-> grid[r][c] \/ <<c - 1, r - 1>> \in cells]]

(* C3: marking is idempotent and order-independent: from every reachable
   grid, applying a scan_update twice equals applying it once, and applying
   two scan_updates in either order gives the union of their valid cells
   with the previous grid. *)
C3_ScanIdempotentCommutative ==
    \A a, b \in ScanInputs :
        /\ applyScan(applyScan(scannedCells, a), a) = applyScan(scannedCells, a)
        /\ applyScan(applyScan(scannedCells, a), b)
              = applyScan(applyScan(scannedCells, b), a)
        /\ applyScan(applyScan(scannedCells, a), b)
              = GridUnion(scannedCells, BatchCells(a) \cup BatchCells(b))

C3_Witness ==
    /\ isScanned(scannedCells, <<0, 1>>)
    /\ isScanned(scannedCells, <<5, 5>>)
    /\ isScanned(scannedCells, <<2, 3>>)
    /\ exploredCells(scannedCells) = 5

isDetection(data) == data.type = "SURVIVOR_DETECTED" /\ data.hasPayload

hasSurvivor(list, id) == \E k \in 1..Len(list) : list[k].id = id

(* C4: the survivors list holds at most one record per survivor id, and a
   SURVIVOR_DETECTED alert whose id is already present leaves the list
   unchanged (the first record is kept). *)
C4_OneRecordPerSurvivor ==
    /\ [](\A i, j \in 1..Len(survivors) :
             survivors[i].id = survivors[j].id => i = j)
    /\ [][ \A data \in SurvAlerts :
              (OnAlert(data) /\ isDetection(data)
                 /\ hasSurvivor(survivors, data.payload.id))
              => survivors' = survivors ]_vars

C4_Witness ==
    /\ Len(received) = 2
    /\ received[1] = Detected("S1", 1)
    /\ received[2] = Detected("S1", 2)
    /\ survivors = << Detected("S1", 1).payload >>

(* C5: detecting the same survivor id twice yields exactly one
   SURVIVOR_DETECTED alert for that id in the alert log. *)
C5_OneDetectionAlert ==
    \A i, j \in 1..Len(alerts) :
        (isDetection(alerts[i]) /\ isDetection(alerts[j])
           /\ alerts[i].payload.id = alerts[j].payload.id) => i = j

(* C6: the alerts list never holds more than 20 entries. *)
C6_AlertsBounded == Len(alerts) <= 20

C6_Witness ==
    /\ Len(received) > 21
    /\ Len(alerts) = 20

(* C7: without dismissal, after n alerts since the last connect the alerts
   list is the last min(n, 20) received alerts in arrival order; the 21st
   alert evicts the oldest entry and only that one. *)
C7_RingBuffer ==
    dismissals = 0 =>
        LET n == Len(received)
            k == IF n < 20 THEN n ELSE 20
        IN  /\ Len(alerts) = k
            /\ \A i \in 1..k : alerts[i] = received[n - k + i]

C7_Witness ==
    /\ dismissals = 0
    /\ Len(received) = 21
    /\ Len(alerts) = 20
    /\ alerts[1].message = 2
    /\ alerts[20].message = 21

(* C8: within a session a rescued survivor stays rescued: no alert,
   drone_update, scan_update or disconnect makes its record unrescued or
   adds an unrescued record with its id. *)
C8_RescueOneWay ==
    [][ \/ OnConnect
        \/ \A k \in 1..Len(survivors) :
              survivors[k].rescued =>
                 /\ k <= Len(survivors')
                 /\ survivors'[k].id = survivors[k].id
                 /\ \A j \in 1..Len(survivors') :
                       survivors'[j].id = survivors[k].id
                          => survivors'[j].rescued ]_vars

C8_Witness ==
    /\ Len(received) = 3
    /\ received[2] = Rescue("S1", "Drone-1")
    /\ received[3] = Detected("S1", 2)
    /\ Len(survivors) = 1
    /\ survivors[1].rescued
    /\ Len(drones) > 0
    /\ isScanned(scannedCells, <<0, 0>>)
    /\ ~connected

(* C9: a RESCUE_NEEDED alert for a survivor that is already rescued leaves
   the record, its rescue_drone included, unchanged. *)
C9_RescueIdempotent ==
    [][ \A data \in SurvAlerts :
          (OnAlert(data) /\ data.type = "RESCUE_NEEDED")
          => \A k \in 1..Len(survivors) :
                survivors[k].rescued =>
                   /\ k <= Len(survivors')
                   /\ survivors'[k] = survivors[k] ]_vars

(* C10: a RESCUE_NEEDED alert whose survivor_id matches no record creates
   no survivor record and changes no existing record. *)
C10_UnknownRescueIgnored ==
    [][ \A data \in SurvAlerts :
          (OnAlert(data) /\ data.type = "RESCUE_NEEDED" /\ data.hasPayload
             /\ ~hasSurvivor(survivors, data.payload.survivor_id))
          => survivors' = survivors ]_vars

C10_Witness ==
    /\ Len(received) = 3
    /\ received[3] = Rescue("S3", "Drone-1")
    /\ Len(survivors) = 2
    /\ ~survivors[1].rescued
    /\ ~survivors[2].rescued

(* C11: any two applied drone_updates are more than 100 ms apart, and every
   drone_update received lies in the 100 ms interval opened by the last
   applied one, so of the N events of one throttle interval exactly one,
   the event that opens it, is applied. *)
C11_Coalescing ==
    /\ [](\A i, j \in 1..Len(appliedAt) :
             i < j => appliedAt[j] - appliedAt[i] > 100)
    /\ [][ \A data \in DroneInputs :
              OnDroneUpdate(data) =>
                 /\ appliedAt' # <<>>
                 /\ appliedAt'[Len(appliedAt')] = last'
                 /\ now - last' >= 0
                 /\ now - last' <= 100
                 /\ (Len(appliedAt') > Len(appliedAt)) = (last' = now /\ last # now) ]_vars

C11_Witness ==
    /\ Len(appliedAt) = 2
    /\ latest.has
    /\ latest.data.hasDrones
    /\ drones # latest.data.drones
    /\ now - last = 100

(* C12: the last drone_update received in a throttle window is the one
   reflected: once the window has passed with no further update, drones
   equals the drones list of the latest drone_update received. *)
C12_TrailingFlush ==
    (latest.has /\ latest.data.hasDrones /\ now - last > 100)
        => drones = latest.data.drones

(* the state the server feeds: drones, survivors, heat signatures, cells *)
fedState == <<drones, survivors, heatSignatures, scannedCells>>

(* C13 (as stated): the disconnect event sets connected to false and leaves
   drones, survivors, alerts, heat signatures and scannedCells unchanged, and
   no step changes any of them while the observer stays disconnected. *)
C13_RetainedUntilConnect ==
    [][ /\ OnDisconnect => (~connected' /\ fedState' = fedState /\ alerts' = alerts)
        /\ (~connected /\ ~connected') => (fedState' = fedState /\ alerts' = alerts)
      ]_vars

(* C13 (amended): the disconnect event sets connected to false and leaves
   drones, survivors, alerts, heat signatures and scannedCells unchanged;
   while the observer stays disconnected drones, survivors, heat signatures
   and scannedCells do not change, and alerts changes only by the operator
   dismissing one entry. *)
C13_DisconnectRetains ==
    [][ /\ OnDisconnect => (~connected' /\ fedState' = fedState /\ alerts' = alerts)
        /\ (~connected /\ ~connected') =>
              /\ fedState' = fedState
              /\ \/ alerts' = alerts
                 \/ \E i \in 0..(Len(alerts) - 1) : alerts' = RemoveAt(alerts, i)
      ]_vars

C13_Witness ==
    /\ ~connected
    /\ drones # <<>>
    /\ survivors # <<>>
    /\ heatSignatures # <<>>
    /\ scannedCells # EmptyGrid
    /\ alerts = <<>>
    /\ dismissals = 1

(* C14: immediately after a connect event connected is true, drones,
   survivors, alerts and heat signatures are empty and all 900 scannedCells
   are false; a step that clears a scanned cell or removes a survivor record
   is a connect event. *)
C14_ConnectRestart ==
    [][ /\ OnConnect =>
              /\ connected'
              /\ drones' = <<>> /\ survivors' = <<>>
              /\ alerts' = <<>> /\ heatSignatures' = <<>>
              /\ HasShape(scannedCells')
              /\ Cardinality(GridCells) = 900
              /\ \A cell \in GridCells : ~isScanned(scannedCells', cell)
        /\ ( \/ \E cell \in GridCells :
                   isScanned(scannedCells, cell) /\ ~isScanned(scannedCells', cell)
             \/ \E i \in 1..Len(survivors) :
                   ~hasSurvivor(survivors', survivors[i].id) )
           => OnConnect
      ]_vars

C14_Witness ==
    /\ connected
    /\ received = <<>>
    /\ survivors = <<>>
    /\ scannedCells = EmptyGrid
    /\ appliedAt # <<>>
    /\ emitted # <<>>

(* the command a step has sent: the entry it appended to emitted *)
sent == emitted'[Len(emitted')]

sends == emitted' # emitted /\ Len(emitted') = Len(emitted) + 1

(* C15: a map click on the command tab for a selected drone in auto mode,
   its control_mode unset or 'auto', sends a set_waypoints command for that
   drone that carries the clicked point. *)
C15_AutoClickSendsWaypoints ==
    ( /\ activeTab = "command"
      /\ socketRef # Undef
      /\ hasSelectedDrone
      /\ selectedDrone.control_mode \in {Undef, "auto"} )
    => \A p \in ClickPoints :
          LET cmds == mapClickCommands(p[1], p[2])
          IN  /\ Len(cmds) = 1
              /\ cmds[1].command = "set_waypoints"
              /\ cmds[1].drone_id = selectedDroneId
              /\ \E k \in 1..Len(cmds[1].waypoints) : cmds[1].waypoints[k] = p

(* C16: a drone_update never changes the stored position of a drone whose
   stored control_mode is 'manual'. *)
C16_ManualKeepsPosition ==
    [][ \A data \in DroneInputs :
          OnDroneUpdate(data) =>
             \A k \in 1..Len(drones) :
                drones[k].control_mode = "manual" =>
                   \E j \in 1..Len(drones') :
                      drones'[j].id = drones[k].id /\ drones'[j].x = drones[k].x
      ]_vars

(* C17: drones is empty or exactly the drones list of one drone_update; it
   changes only by a connect event emptying it or by a drone_update
   replacing it whole with the list received, and no local command edits
   it. *)
C17_Snapshot ==
    /\ [](\/ drones = <<>>
          \/ \E data \in CommandDroneInputs :
                data.hasDrones /\ drones = data.drones)
    /\ [][ /\ drones' # drones =>
                \/ OnConnect /\ drones' = <<>>
                \/ \E data \in CommandDroneInputs :
                      /\ OnDroneUpdate(data)
                      /\ data.hasDrones
                      /\ drones' = data.drones
           /\ ( \/ emitted' # emitted
                \/ selectedDroneId' # selectedDroneId
                \/ activeTab' # activeTab ) => drones' = drones
         ]_vars

C17_Witness ==
    /\ Len(appliedAt) = 2
    /\ Len(drones) = 2
    /\ drones[1].control_mode = Undef
    /\ emitted # <<>>

(* C18: the mode button sends manual_command {drone_id, command: 'set_mode',
   mode} for the selected drone with mode 'manual' when its control_mode is
   unset or 'auto' and mode 'auto' otherwise; no command is sent without a
   socket. *)
C18_ModeButtonToggles ==
    [][ /\ handleSetMode =>
              IF socketRef = Undef
              THEN emitted' = emitted
              ELSE /\ sends
                   /\ sent.drone_id = selectedDrone.id
                   /\ sent.command = "set_mode"
                   /\ sent.mode =
                         IF selectedDrone.control_mode \in {Undef, "auto"}
                         THEN "manual" ELSE "auto"
        /\ emitted' # emitted => socketRef # Undef
      ]_vars

C18_Witness ==
    /\ emitted # <<>>
    /\ emitted[1].command = "set_mode"
    /\ emitted[1].mode = "manual"
    /\ emitted[1].drone_id = "Drone-2"

(* C19: a set_waypoints command with an empty waypoint list is sent only
   while the selected drone's control_mode in drones is 'manual', and it
   names the selected drone; Clear Path sends exactly that command. *)
C19_ClearPathManualOnly ==
    [][ /\ (sends /\ sent.command = "set_waypoints" /\ sent.waypoints = <<>>)
           => /\ hasSelectedDrone
              /\ selectedDrone.control_mode = "manual"
              /\ sent.drone_id = selectedDroneId
        /\ (handleClearPath /\ socketRef # Undef)
           => (sends /\ sent.command = "set_waypoints" /\ sent.waypoints = <<>>)
      ]_vars

C19_Witness ==
    /\ emitted # <<>>
    /\ emitted[1].command = "set_waypoints"
    /\ emitted[1].waypoints = <<>>

(* C20: an accepted map click sends the selected drone's current waypoints
   (none if it has no list) in their order, followed by the clicked point as
   the last element. *)
C20_ClickAppendsWaypoint ==
    [][ \A p \in ClickPoints :
          (handleMapClick(p[1], p[2]) /\ emitted' # emitted) =>
             LET cur == IF selectedDrone.hasWaypoints
                        THEN selectedDrone.waypoints ELSE <<>>
                 w   == sent.waypoints
             IN  /\ sends
                 /\ sent.command = "set_waypoints"
                 /\ sent.drone_id = selectedDroneId
                 /\ Len(w) = Len(cur) + 1
                 /\ w[Len(w)] = p
                 /\ \A k \in 1..Len(cur) : w[k] = cur[k]
      ]_vars

C20_Witness ==
    /\ emitted # <<>>
    /\ emitted[1].command = "set_waypoints"
    /\ emitted[1].waypoints = << <<1, 1>>, <<2, 2>>, <<500, 500>> >>

(* C21: every manual_command sent names a drone that is in drones when it
   is sent; a set_waypoints command with a clicked point is sent only on the
   command tab with a drone selected; with the selected drone absent from
   drones a map click sends nothing. *)
C21_KnownDroneOnly ==
    /\ [][ sends =>
              /\ \E k \in 1..Len(drones) : drones[k].id = sent.drone_id
              /\ (sent.command = "set_waypoints" /\ sent.waypoints # <<>>)
                    => /\ activeTab = "command"
                       /\ Truthy(selectedDroneId)
                       /\ sent.drone_id = selectedDroneId
         ]_vars
    /\ [](~hasSelectedDrone =>
             \A p \in ClickPoints : mapClickCommands(p[1], p[2]) = <<>>)

C21_Witness ==
    /\ activeTab = "command"
    /\ selectedDroneId = "Drone-2"
    /\ drones # <<>>
    /\ ~hasSelectedDrone
    /\ emitted = <<>>

(* C22: every value setMotors writes to a motor pin lies in 0..255, and
   with pitch = roll = yaw = 0 the four values are the throttle clamped to
   0..255. *)
C22_MotorMixing ==
    fw.pc = "done" =>
       /\ \A k \in 1..4 : fw.motors[k] >= 0 /\ fw.motors[k] <= 255
       /\ (fw.args[2] = 0 /\ fw.args[3] = 0 /\ fw.args[4] = 0) =>
             \A k \in 1..4 :
                fw.motors[k] = IF fw.args[1] < 0 THEN 0
                               ELSE IF fw.args[1] > 255 THEN 255
                               ELSE fw.args[1]

C22_Witness ==
    /\ fw.pc = "done"
    /\ fw.args = <<180, -200, IntMax, 0>>
    /\ fw.motors[1] = 255
    /\ fw.motors[3] = 0
    /\ fw.motors[4] = 0

(* C23: the loop() iteration whose failsafe test finds WiFi not connected
   ends with all four motors at 0, whatever socket.loop() handled in that
   iteration. *)
C23_Failsafe ==
    [][ (fw.pc = "failsafe" /\ fw'.pc = "socket.loop" /\ ~fw.wifi)
           => fw'.motors = <<0, 0, 0, 0>> ]_vars

C23_Witness ==
    /\ fw.pc = "socket.loop"
    /\ ~fw.wifi
    /\ fw.event.shape = "array"
    /\ fw.args = <<0, 0, 0, 0>>
    /\ \E k \in 1..Len(fw.event.entries) :
          fw.event.entries[k].id = "Drone-1" /\ fw.event.entries[k].status = "scanning"

(* the throttle a status commands, 0 - 1 for a status that commands none *)
statusThrottle(status) ==
    IF status \in {"scanning", "responding"} THEN 180
    ELSE IF status = "idle" THEN 50
    ELSE IF status = "returning" THEN 200
    ELSE 0 - 1

(* C24: a drone_update array with an entry for Drone-1 whose status is
   scanning or responding, idle, returning sets all motors to 180, 50, 200;
   a payload that does not parse, has no entry for Drone-1 or carries
   another status leaves the motor outputs unchanged. *)
C24_CommandDecoding ==
    [][ \A msg \in WireMessages :
          loopSocket(msg) =>
             LET mine == IF msg.shape = "array"
                         THEN SelectSeq(msg.entries,
                                  LAMBDA d : d.id = "Drone-1" /\
                                             statusThrottle(d.status) >= 0)
                         ELSE <<>>
             IN  IF mine = <<>>
                 THEN fw'.motors = fw.motors
                 ELSE \A k \in 1..4 :
                         fw'.motors[k] = statusThrottle(mine[Len(mine)].status)
      ]_vars

C24_Witness ==
    /\ fw.pc = "failsafe"
    /\ fw.motors = <<200, 200, 200, 200>>
    /\ fw.event.shape = "array"
    /\ Len(fw.event.entries) = 1
    /\ fw.event.entries[1].status = "charging"

(* C30: every drone_update message from which the client takes a drones
   list holding Drone-1 with status scanning makes the firmware of Drone-1
   set all motors to the cruise throttle 180. *)
C30_WireShapeAgreement ==
    \A msg \in WireMessages :
       ( /\ clientData(msg).hasDrones
         /\ \E k \in 1..Len(clientData(msg).drones) :
               /\ clientData(msg).drones[k].id = "Drone-1"
               /\ clientData(msg).drones[k].status = "scanning" )
       => onDroneUpdate(fw, msg).motors = <<180, 180, 180, 180>>

(* C25: a click on the i-th alert shown in the panel, which shows the last
   5 alerts, removes that alert from alerts and leaves every other alert in
   place. *)
C25_DismissClicked ==
    [][ \A index \in DismissIndexes :
          dismissAlert(index) =>
             LET shown == IF Len(alerts) <= 5 THEN 0 ELSE Len(alerts) - 5
                 pos   == shown + index + 1
             IN  /\ Len(alerts') = Len(alerts) - 1
                 /\ \A k \in 1..Len(alerts') :
                       alerts'[k] = IF k < pos THEN alerts[k] ELSE alerts[k + 1]
      ]_vars

(* C26: when two map clicks for the same drone are sent with no
   drone_update applied in between, the waypoint list of the second
   set_waypoints command holds both clicked points, the first click before
   the second. *)
C26_NoWaypointLost ==
    \A n \in 2..Len(emitted) :
       LET first  == emitted[n - 1]
           second == emitted[n]
       IN  ( /\ first.command = "set_waypoints" /\ first.waypoints # <<>>
             /\ second.command = "set_waypoints" /\ second.waypoints # <<>>
             /\ first.drone_id = second.drone_id )
           => \E i, j \in 1..Len(second.waypoints) :
                 /\ i < j
                 /\ second.waypoints[i] = first.waypoints[Len(first.waypoints)]
                 /\ second.waypoints[j] = second.waypoints[Len(second.waypoints)]
                 /\ j = Len(second.waypoints)

(* C27: a survivor id for which both a SURVIVOR_DETECTED and a
   RESCUE_NEEDED alert were received since the last connect has a record
   with rescued = TRUE, in whichever order the two alerts arrived. *)
C27_RescueOrderFree ==
    \A i, j \in 1..Len(received) :
       ( /\ isDetection(received[i])
         /\ received[j].type = "RESCUE_NEEDED"
         /\ received[j].hasPayload
         /\ received[j].payload.survivor_id = received[i].payload.id )
       => \E k \in 1..Len(survivors) :
             /\ survivors[k].id = received[i].payload.id
             /\ survivors[k].rescued = TRUE

(* C29: the first drone_update received after a connect event is applied:
   when it carries a drones list, drones is that list afterwards. *)
C29_ResyncAfterReconnect ==
    [][ \A data \in DroneInputs :
          (OnDroneUpdate(data) /\ ~latest.has /\ data.hasDrones)
             => drones' = data.drones ]_vars

(* C28: the click that ends a gesture in which the pointer moved more than
   5 px away from where the button went down does not call onMapClick. *)
C28_PanIsNotClick ==
    canvas.moved => canvas.clicked # "onMapClick"

====
